---- MODULE Spec2Model ----
(***************************************************************************)
(* Model of the retrieval-augmented answer path of backend/core/           *)
(* rag_answer.py: embed_query, retrieve_chunks, build_context,             *)
(* answer_with_context and rag_answer.                                     *)
(*                                                                         *)
(* Strings are sequences of one-character strings, so that len(), strip()  *)
(* and str.join() are computed character by character.  Scores are         *)
(* integers in units of 1e-7; rounded scores are integers in units of 1e-4.*)
(***************************************************************************)
EXTENDS Integers, Sequences, FiniteSets, TLC

\* one caller: its position and the locals of the functions it is in
VARIABLES pc, entry, question, qvec, resp, hits, context, answer, sources,
          result, log

\* several callers at once: the locals of each invocation, and the
\* module-level names of rag_answer.py
VARIABLES inv, globals

\* ingestion and deletion: PROCESSED_DIR, CHUNKS_DIR and UPLOAD_DIR, the
\* vectors the index holds, the filenames deleted and not ingested since,
\* and whether the last step was a run of embeddings.py
VARIABLES processed, chunks_dir, uploads, vectors, deleted, ingested

callervars == <<pc, entry, question, qvec, resp, hits, context, answer,
                sources, result, log>>

concvars == <<inv, globals>>

ingestvars == <<processed, chunks_dir, uploads, vectors, deleted, ingested>>

vars == <<callervars, concvars, ingestvars>>

(***************************************************************************)
(* Configuration constants of rag_answer.py                                *)
(***************************************************************************)
INDEX_NAME == "pdf-qa-embeddings"
TOP_K == 5
MAX_CONTEXT_CHARS == 6000

(***************************************************************************)
(* Bounds of the model                                                     *)
(***************************************************************************)
MaxMatches == 3
NumInvocations == 2

(***************************************************************************)
(* Strings                                                                 *)
(***************************************************************************)
EmptyStr == << >>

\* a run of n filler characters
X(n) == [i \in 1..n |-> "x"]

DigitChars == <<"0", "1", "2", "3", "4", "5", "6", "7", "8", "9">>

RECURSIVE NatToStr(_)
NatToStr(n) ==
    IF n < 10 THEN <<DigitChars[n + 1]>>
    ELSE NatToStr(n \div 10) \o <<DigitChars[(n % 10) + 1]>>

\* str(int) / f"{int}": decimal digits, "-" in front of a negative number
IntToStr(n) == IF n < 0 THEN <<"-">> \o NatToStr(0 - n) ELSE NatToStr(n)

\* characters str.strip() removes
Whitespace == {" ", "\n", "\t", "\r", "\f"}

RECURSIVE FirstKept(_, _)
FirstKept(s, i) ==
    IF i > Len(s) THEN i
    ELSE IF s[i] \in Whitespace THEN FirstKept(s, i + 1) ELSE i

RECURSIVE LastKept(_, _)
LastKept(s, i) ==
    IF i < 1 THEN i
    ELSE IF s[i] \in Whitespace THEN LastKept(s, i - 1) ELSE i

\* str.strip(): drop leading and trailing whitespace
Strip(s) ==
    LET lo == FirstKept(s, 1)
    IN  IF lo > Len(s) THEN EmptyStr
        ELSE SubSeq(s, lo, LastKept(s, Len(s)))

\* the test `not context.strip()` without a strip: `not context`
ContextIsBlank_nostrip(ctx) == ctx = EmptyStr

\* `not context.strip()` (line 93)
ContextIsBlank(ctx) == Strip(ctx) = EmptyStr

RECURSIVE JoinFrom(_, _, _)
JoinFrom(sep, parts, i) ==
    IF i > Len(parts) THEN EmptyStr
    ELSE sep \o parts[i] \o JoinFrom(sep, parts, i + 1)

\* sep.join(parts)
Join(sep, parts) ==
    IF parts = << >> THEN EmptyStr
    ELSE parts[1] \o JoinFrom(sep, parts, 2)

SEPARATOR == <<"\n", "-", "-", "-", "\n">>

FALLBACK ==
    <<"I", " ", "c", "o", "u", "l", "d", "n", "'", "t", " ", "f", "i", "n",
      "d", " ", "r", "e", "l", "e", "v", "a", "n", "t", " ", "c", "o", "n",
      "t", "e", "x", "t", " ", "f", "o", "r", " ", "y", "o", "u", "r", " ",
      "q", "u", "e", "s", "t", "i", "o", "n", " ", "i", "n", " ", "t", "h",
      "e", " ", "k", "n", "o", "w", "l", "e", "d", "g", "e", " ", "b", "a",
      "s", "e", ".">>

(***************************************************************************)
(* Scores                                                                  *)
(***************************************************************************)
\* round(score, 4): nearest multiple of 1e-4, an exact tie to the even one
Round4(s) ==
    LET q == s \div 1000
        r == s % 1000
    IN  IF r > 500 \/ (r = 500 /\ q % 2 = 1) THEN q + 1 ELSE q

(***************************************************************************)
(* Retrieved matches: metadata is a dict (keys = the keys it holds) or     *)
(* None; a match may lack the score attribute.                             *)
(***************************************************************************)
NoMetadata ==
    [is_none |-> TRUE, keys |-> {}, filename |-> EmptyStr, chunk_id |-> 0,
     content |-> EmptyStr]

Metadata(keys, filename, chunk_id, content) ==
    [is_none |-> FALSE, keys |-> keys, filename |-> filename,
     chunk_id |-> chunk_id, content |-> content]

Match(md, has_score, score) ==
    [metadata |-> md, has_score |-> has_score, score |-> score]

AllKeys == {"filename", "chunk_id", "content"}

\* `m.metadata or {}` followed by md.get(key, default), dropping the default
MdGet_nodefault(m, key, default) == m.metadata[key]

\* `m.metadata or {}` followed by md.get(key, default) (lines 53, 56-58)
MdGet(m, key, default) ==
    IF m.metadata.is_none \/ key \notin m.metadata.keys
    THEN default
    ELSE m.metadata[key]

UNKNOWN == <<"u", "n", "k", "n", "o", "w", "n">>

\* RetrievedChunk built from one match (lines 55-60)
ToChunk(m) ==
    [filename |-> MdGet(m, "filename", UNKNOWN),
     chunk_id |-> MdGet(m, "chunk_id", -1),
     content  |-> MdGet(m, "content", EmptyStr),
     score    |-> IF m.has_score THEN m.score ELSE 0]

\* `resp.matches or []` and the loop of lines 51-62
ChunksOf(r) ==
    LET ms == IF r.is_none THEN << >> ELSE r.matches
    IN  [i \in 1..Len(ms) |-> ToChunk(ms[i])]

(***************************************************************************)
(* build_context                                                           *)
(***************************************************************************)
RECURSIVE InsertByScore_unstable(_, _)
InsertByScore_unstable(sorted, ch) ==
    IF sorted = << >> THEN <<ch>>
    ELSE IF sorted[1].score > ch.score
         THEN <<sorted[1]>> \o InsertByScore_unstable(Tail(sorted), ch)
         ELSE <<ch>> \o sorted

\* place ch behind every chunk whose score is at least its own
RECURSIVE InsertByScore(_, _)
InsertByScore(sorted, ch) ==
    IF sorted = << >> THEN <<ch>>
    ELSE IF sorted[1].score >= ch.score
         THEN <<sorted[1]>> \o InsertByScore(Tail(sorted), ch)
         ELSE <<ch>> \o sorted

RECURSIVE SortFrom(_, _, _)
SortFrom(chunks, i, acc) ==
    IF i > Len(chunks) THEN acc
    ELSE SortFrom(chunks, i + 1, InsertByScore(acc, chunks[i]))

\* sorted(chunks, key=score, reverse=True): stable, score descending
SortedByScore(chunks) == SortFrom(chunks, 1, << >>)

\* tag = f"[{filename}#{chunk_id}]"
Tag(ch) == <<"[">> \o ch.filename \o <<"#">> \o IntToStr(ch.chunk_id) \o <<"]">>

\* block = f"{tag}\n{content}\n"
Block(ch) == Tag(ch) \o <<"\n">> \o ch.content \o <<"\n">>

RECURSIVE PackLoop_ge(_, _, _, _)
PackLoop_ge(chunks, i, parts, total) ==
    IF i > Len(chunks) THEN parts
    ELSE LET block == Block(chunks[i])
         IN  IF total + Len(block) >= MAX_CONTEXT_CHARS THEN parts
             ELSE PackLoop_ge(chunks, i + 1, Append(parts, block),
                              total + Len(block))

RECURSIVE PackLoop_checkafter(_, _, _, _)
PackLoop_checkafter(chunks, i, parts, total) ==
    IF i > Len(chunks) THEN parts
    ELSE LET block == Block(chunks[i])
         IN  IF total > MAX_CONTEXT_CHARS THEN parts
             ELSE PackLoop_checkafter(chunks, i + 1, Append(parts, block),
                                      total + Len(block))

RECURSIVE PackLoop_continue(_, _, _, _)
PackLoop_continue(chunks, i, parts, total) ==
    IF i > Len(chunks) THEN parts
    ELSE LET block == Block(chunks[i])
         IN  IF total + Len(block) > MAX_CONTEXT_CHARS
             THEN PackLoop_continue(chunks, i + 1, parts, total)
             ELSE PackLoop_continue(chunks, i + 1, Append(parts, block),
                                    total + Len(block))

\* the for loop of lines 71-78: stop at the first block that would overflow
RECURSIVE PackLoop(_, _, _, _)
PackLoop(chunks, i, parts, total) ==
    IF i > Len(chunks) THEN parts
    ELSE LET block == Block(chunks[i])
         IN  IF total + Len(block) > MAX_CONTEXT_CHARS THEN parts
             ELSE PackLoop(chunks, i + 1, Append(parts, block),
                           total + Len(block))

build_context(chunks) ==
    Join(SEPARATOR, PackLoop(SortedByScore(chunks), 1, << >>, 0))

(***************************************************************************)
(* Inputs: what the callers and the external services can supply           *)
(***************************************************************************)
Questions == {<<"w", "h", "a", "t", " ", "i", "s", " ", "X", "?">>}

Embeddings == {<<1, 0>>, <<0, 1>>}

A_PDF == <<"a", ".", "p", "d", "f">>
B_PDF == <<"b", ".", "p", "d", "f">>
DOC_PDF == <<"d", "o", "c", ".", "p", "d", "f">>
HELLO == <<"h", "e", "l", "l", "o", " ", "w", "o", "r", "l", "d">>

\* length of "[a.pdf#0]\n" + "\n"
TagOverhead == Len(Block([filename |-> A_PDF, chunk_id |-> 0,
                          content |-> EmptyStr, score |-> 0]))

\* two blocks that fill the budget exactly, with equal scores
HalfA == Match(Metadata(AllKeys, A_PDF, 0,
                        X(MAX_CONTEXT_CHARS \div 2 - TagOverhead)),
               TRUE, 8123456)
HalfB == Match(Metadata(AllKeys, B_PDF, 3,
                        X(MAX_CONTEXT_CHARS \div 2 - TagOverhead)),
               TRUE, 8123456)
\* one block of exactly the budget
Exact == Match(Metadata(AllKeys, A_PDF, 1,
                        X(MAX_CONTEXT_CHARS - TagOverhead)),
               TRUE, 9000000)
\* one block one character longer than the budget
Oversize == Match(Metadata(AllKeys, B_PDF, 12,
                           X(MAX_CONTEXT_CHARS - TagOverhead)),
                  TRUE, 8500000)
\* metadata None
Bare == Match(NoMetadata, TRUE, 4000000)
\* metadata without chunk_id
NoChunkId == Match(Metadata({"filename", "content"}, DOC_PDF, 0, HELLO),
                   TRUE, 9500000)
\* metadata with chunk_id only, and no score attribute
OnlyChunkId == Match(Metadata({"chunk_id"}, EmptyStr, 3, EmptyStr), FALSE, 0)

MatchPool == {HalfA, HalfB, Exact, Oversize, Bare, NoChunkId, OnlyChunkId}

RECURSIVE SeqsUpTo(_, _)
SeqsUpTo(S, n) ==
    IF n = 0 THEN {<< >>}
    ELSE LET shorter == SeqsUpTo(S, n - 1)
         IN  shorter \cup {Append(s, x) : s \in shorter, x \in S}

MaxReturned == IF MaxMatches < TOP_K THEN MaxMatches ELSE TOP_K

\* answers of index.query(top_k=TOP_K): matches is None or at most TOP_K long
Responses ==
    {[is_none |-> TRUE, matches |-> << >>]}
    \cup {[is_none |-> FALSE, matches |-> ms] :
            ms \in SeqsUpTo(MatchPool, MaxReturned)}

\* message.content of a completion
Replies == {<<" ", "X", " ", "[", "a", "#", "0", "]", "\n">>, <<"n", "o">>}

\* contexts a direct caller of answer_with_context passes
Contexts ==
    {EmptyStr, <<" ", " ", " ">>, <<" ", "\n", "\t">>, <<" ", "a", " ">>,
     <<"[", "a", "#", "0", "]", "\n", "h", "i", "\n">>}

NoResult == [status |-> "none", error |-> "none"]

(***************************************************************************)
(* Concurrent invocations: initial values                                  *)
(***************************************************************************)
Invocations == 1..NumInvocations

\* client, pc and index of lines 24-26 and the constants of lines 10-12
LoadedModule ==
    [client |-> "OpenAI", pc |-> "Pinecone", index |-> INDEX_NAME,
     INDEX_NAME |-> INDEX_NAME, TOP_K |-> TOP_K,
     MAX_CONTEXT_CHARS |-> MAX_CONTEXT_CHARS]

\* the frame of a rag_answer invocation that has not started
NewInvocation ==
    [pc |-> "idle", question |-> EmptyStr, qvec |-> << >>,
     resp |-> [is_none |-> TRUE, matches |-> << >>], hits |-> << >>,
     context |-> EmptyStr, reply |-> EmptyStr, answer |-> EmptyStr,
     sources |-> << >>, result |-> NoResult, overlapped |-> FALSE]

(***************************************************************************)
(* State machine of one caller                                             *)
(***************************************************************************)
Init ==
    /\ inv = [t \in Invocations |-> NewInvocation]
    /\ globals = LoadedModule
    /\ processed = {}
    /\ chunks_dir = {}
    /\ uploads = {}
    /\ vectors = {}
    /\ deleted = {}
    /\ ingested = FALSE
    /\ pc = "idle"
    /\ entry = "none"
    /\ question = EmptyStr
    /\ qvec = << >>
    /\ resp = [is_none |-> TRUE, matches |-> << >>]
    /\ hits = << >>
    /\ context = EmptyStr
    /\ answer = EmptyStr
    /\ sources = << >>
    /\ result = NoResult
    /\ log = << >>

CanCall == pc \in {"idle", "done", "raised"}

\* rag_answer(q) up to the blocking client.embeddings.create (116, 45, 37)
CallRagAnswer(q) ==
    /\ CanCall
    /\ pc' = "embed_wait"
    /\ entry' = "rag_answer"
    /\ question' = q
    /\ qvec' = << >>
    /\ resp' = [is_none |-> TRUE, matches |-> << >>]
    /\ hits' = << >>
    /\ context' = EmptyStr
    /\ answer' = EmptyStr
    /\ sources' = << >>
    /\ result' = NoResult
    /\ log' = <<"embed.call">>

\* answer_with_context(q, ctx) called directly
CallAnswerWithContext(q, ctx) ==
    /\ CanCall
    /\ pc' = "answer"
    /\ entry' = "answer_with_context"
    /\ question' = q
    /\ qvec' = << >>
    /\ resp' = [is_none |-> TRUE, matches |-> << >>]
    /\ hits' = << >>
    /\ context' = ctx
    /\ answer' = EmptyStr
    /\ sources' = << >>
    /\ result' = NoResult
    /\ log' = << >>

\* an external call raises: nothing catches it, the caller gets the error
Raise(event, error) ==
    /\ pc' = "raised"
    /\ result' = [status |-> "raised", error |-> error]
    /\ log' = Append(log, event)
    /\ UNCHANGED <<entry, question, qvec, resp, hits, context, answer,
                   sources>>

\* embeddings.create returns; retrieve_chunks goes on to index.query (41-46)
EmbedReturn(vec) ==
    /\ pc = "embed_wait"
    /\ pc' = "search_wait"
    /\ qvec' = vec
    /\ log' = log \o <<"embed.return", "search.call">>
    /\ UNCHANGED <<entry, question, resp, hits, context, answer, sources,
                   result>>

\* embeddings.create raises (line 37)
EmbedFail ==
    /\ pc = "embed_wait"
    /\ Raise("embed.fail", "EmbeddingServiceError")

\* index.query returns; an empty answer is queried for a second time
SearchReturn_requery(r) ==
    /\ pc = "search_wait"
    /\ IF r.is_none \/ r.matches = << >>
       THEN /\ pc' = "search_wait"
            /\ log' = log \o <<"search.return", "search.call">>
            /\ UNCHANGED <<qvec, resp, hits>>
       ELSE /\ pc' = "build"
            /\ qvec' = << >>
            /\ resp' = r
            /\ hits' = ChunksOf(r)
            /\ log' = Append(log, "search.return")
    /\ UNCHANGED <<entry, question, context, answer, sources, result>>

\* index.query returns; the matches become RetrievedChunks (51-62)
SearchReturn(r) ==
    /\ pc = "search_wait"
    /\ pc' = "build"
    /\ qvec' = << >>
    /\ resp' = r
    /\ hits' = ChunksOf(r)
    /\ log' = Append(log, "search.return")
    /\ UNCHANGED <<entry, question, context, answer, sources, result>>

\* index.query raises (line 46)
SearchFail ==
    /\ pc = "search_wait"
    /\ Raise("search.fail", "IndexServiceError")

\* build_context sorting the caller's list in place
BuildContext_inplace ==
    /\ pc = "build"
    /\ pc' = "answer"
    /\ hits' = SortedByScore(hits)
    /\ context' = build_context(hits)
    /\ UNCHANGED <<entry, question, qvec, resp, answer, sources, result, log>>

\* context = build_context(hits) (line 117)
BuildContext ==
    /\ pc = "build"
    /\ pc' = "answer"
    /\ context' = build_context(hits)
    /\ UNCHANGED <<entry, question, qvec, resp, hits, answer, sources, result,
                   log>>

\* answer_with_context returns ans to whoever called it
ReturnAnswer(ans) ==
    /\ answer' = ans
    /\ IF entry = "rag_answer"
       THEN pc' = "package" /\ result' = result
       ELSE pc' = "done" /\ result' = [status |-> "returned", error |-> "none"]

\* answer_with_context without the guard of lines 93-94
AnswerWithContext_noguard ==
    /\ pc = "answer"
    /\ pc' = "llm_wait"
    /\ log' = Append(log, "llm.call")
    /\ UNCHANGED <<entry, question, qvec, resp, hits, context, answer,
                   sources, result>>

\* answer_with_context up to its return or its blocking completion call
AnswerWithContext ==
    /\ pc = "answer"
    /\ IF ContextIsBlank(context)
       THEN /\ ReturnAnswer(FALLBACK)
            /\ log' = log
       ELSE /\ pc' = "llm_wait"
            /\ log' = Append(log, "llm.call")
            /\ UNCHANGED <<answer, result>>
    /\ UNCHANGED <<entry, question, qvec, resp, hits, context, sources>>

\* chat.completions.create returns (line 112)
LLMReturn(reply) ==
    /\ pc = "llm_wait"
    /\ ReturnAnswer(Strip(reply))
    /\ log' = Append(log, "llm.return")
    /\ UNCHANGED <<entry, question, qvec, resp, hits, context, sources>>

\* the completion error caught and answered with the fallback string
LLMFail_swallow ==
    /\ pc = "llm_wait"
    /\ ReturnAnswer(FALLBACK)
    /\ log' = Append(log, "llm.fail")
    /\ UNCHANGED <<entry, question, qvec, resp, hits, context, sources>>

\* chat.completions.create raises (line 107)
LLMFail ==
    /\ pc = "llm_wait"
    /\ Raise("llm.fail", "GenerationServiceError")

\* one entry of sources (line 119)
Source(h) ==
    [filename |-> h.filename, chunk_id |-> h.chunk_id,
     score |-> Round4(h.score)]

\* sources and the returned dict (lines 119-120)
Package ==
    /\ pc = "package"
    /\ pc' = "done"
    /\ sources' = [i \in 1..Len(hits) |-> Source(hits[i])]
    /\ result' = [status |-> "returned", error |-> "none"]
    /\ UNCHANGED <<entry, question, qvec, resp, hits, context, answer, log>>

Next ==
    \/ \E q \in Questions :
         CallRagAnswer(q) /\ UNCHANGED <<concvars, ingestvars>>
    \/ \E q \in Questions, ctx \in Contexts :
         CallAnswerWithContext(q, ctx) /\ UNCHANGED <<concvars, ingestvars>>
    \/ \E vec \in Embeddings :
         EmbedReturn(vec) /\ UNCHANGED <<concvars, ingestvars>>
    \/ EmbedFail /\ UNCHANGED <<concvars, ingestvars>>
    \/ \E r \in Responses :
         SearchReturn(r) /\ UNCHANGED <<concvars, ingestvars>>
    \/ SearchFail /\ UNCHANGED <<concvars, ingestvars>>
    \/ BuildContext /\ UNCHANGED <<concvars, ingestvars>>
    \/ AnswerWithContext /\ UNCHANGED <<concvars, ingestvars>>
    \/ \E reply \in Replies :
         LLMReturn(reply) /\ UNCHANGED <<concvars, ingestvars>>
    \/ LLMFail /\ UNCHANGED <<concvars, ingestvars>>
    \/ Package /\ UNCHANGED <<concvars, ingestvars>>

Spec == Init /\ [][Next]_vars

(***************************************************************************)
(* Concurrent rag_answer invocations (the server runs /ask handlers in a   *)
(* thread pool): every invocation has its own frame; the steps are those   *)
(* of the single caller.                                                   *)
(***************************************************************************)
\* answers of index.query the concurrent invocations receive
ConcResponses ==
    {[is_none |-> TRUE, matches |-> << >>],
     [is_none |-> FALSE, matches |-> <<NoChunkId>>],
     [is_none |-> FALSE, matches |-> <<Bare, NoChunkId>>],
     [is_none |-> FALSE, matches |-> <<OnlyChunkId, Bare>>]}

InFlight(t) == inv[t].pc \notin {"idle", "done", "raised"}

\* invocation t moves to frame f; no module-level name is assigned
Step(t, f) ==
    /\ inv' = [inv EXCEPT ![t] =
                 [f EXCEPT !.overlapped =
                    @ \/ \E u \in Invocations \ {t} : InFlight(u)]]
    /\ UNCHANGED globals

\* rag_answer(q) up to the blocking client.embeddings.create (116, 45, 37)
ConcCall(t, q) ==
    /\ inv[t].pc = "idle"
    /\ Step(t, [inv[t] EXCEPT !.pc = "embed_wait", !.question = q])

\* embeddings.create returns; retrieve_chunks goes on to index.query (41-46)
ConcEmbedReturn(t, vec) ==
    /\ inv[t].pc = "embed_wait"
    /\ Step(t, [inv[t] EXCEPT !.pc = "search_wait", !.qvec = vec])

\* an external call of invocation t raises
ConcRaise(t, error) ==
    Step(t, [inv[t] EXCEPT !.pc = "raised",
                           !.result = [status |-> "raised", error |-> error]])

ConcEmbedFail(t) ==
    /\ inv[t].pc = "embed_wait"
    /\ ConcRaise(t, "EmbeddingServiceError")

\* the chunks kept in one module-level list that every invocation uses
ConcSearchReturn_global(t, r) ==
    /\ inv[t].pc = "search_wait"
    /\ inv' = [u \in Invocations |->
                 IF u = t
                 THEN [inv[t] EXCEPT !.pc = "build", !.qvec = << >>,
                                     !.resp = r, !.hits = ChunksOf(r)]
                 ELSE [inv[u] EXCEPT !.hits = ChunksOf(r)]]
    /\ UNCHANGED globals

\* index.query returns; the matches become RetrievedChunks (51-62)
ConcSearchReturn(t, r) ==
    /\ inv[t].pc = "search_wait"
    /\ Step(t, [inv[t] EXCEPT !.pc = "build", !.qvec = << >>, !.resp = r,
                              !.hits = ChunksOf(r)])

ConcSearchFail(t) ==
    /\ inv[t].pc = "search_wait"
    /\ ConcRaise(t, "IndexServiceError")

\* context = build_context(hits) (line 117)
ConcBuildContext(t) ==
    /\ inv[t].pc = "build"
    /\ Step(t, [inv[t] EXCEPT !.pc = "answer",
                              !.context = build_context(inv[t].hits)])

\* answer_with_context up to its return or its blocking completion call
ConcAnswerWithContext(t) ==
    /\ inv[t].pc = "answer"
    /\ IF ContextIsBlank(inv[t].context)
       THEN Step(t, [inv[t] EXCEPT !.pc = "package", !.answer = FALLBACK])
       ELSE Step(t, [inv[t] EXCEPT !.pc = "llm_wait"])

\* chat.completions.create returns (line 112)
ConcLLMReturn(t, reply) ==
    /\ inv[t].pc = "llm_wait"
    /\ Step(t, [inv[t] EXCEPT !.pc = "package", !.reply = reply,
                              !.answer = Strip(reply)])

ConcLLMFail(t) ==
    /\ inv[t].pc = "llm_wait"
    /\ ConcRaise(t, "GenerationServiceError")

\* sources and the returned dict (lines 119-120)
ConcPackage(t) ==
    /\ inv[t].pc = "package"
    /\ Step(t, [inv[t] EXCEPT
                  !.pc = "done",
                  !.sources = [i \in 1..Len(inv[t].hits) |->
                                 Source(inv[t].hits[i])],
                  !.result = [status |-> "returned", error |-> "none"]])

ConcNext ==
    \/ \E t \in Invocations, q \in Questions :
         ConcCall(t, q) /\ UNCHANGED <<callervars, ingestvars>>
    \/ \E t \in Invocations, vec \in Embeddings :
         ConcEmbedReturn(t, vec) /\ UNCHANGED <<callervars, ingestvars>>
    \/ \E t \in Invocations :
         ConcEmbedFail(t) /\ UNCHANGED <<callervars, ingestvars>>
    \/ \E t \in Invocations, r \in ConcResponses :
         ConcSearchReturn(t, r) /\ UNCHANGED <<callervars, ingestvars>>
    \/ \E t \in Invocations :
         ConcSearchFail(t) /\ UNCHANGED <<callervars, ingestvars>>
    \/ \E t \in Invocations :
         ConcBuildContext(t) /\ UNCHANGED <<callervars, ingestvars>>
    \/ \E t \in Invocations :
         ConcAnswerWithContext(t) /\ UNCHANGED <<callervars, ingestvars>>
    \/ \E t \in Invocations, reply \in Replies :
         ConcLLMReturn(t, reply) /\ UNCHANGED <<callervars, ingestvars>>
    \/ \E t \in Invocations :
         ConcLLMFail(t) /\ UNCHANGED <<callervars, ingestvars>>
    \/ \E t \in Invocations :
         ConcPackage(t) /\ UNCHANGED <<callervars, ingestvars>>

SpecConc == Init /\ [][ConcNext]_vars

(***************************************************************************)
(* Ingestion and deletion: chunking.py, embeddings.py, main.delete_file    *)
(***************************************************************************)
DOT_JSON == <<".", "j", "s", "o", "n">>
A_JSON == <<"a">> \o DOT_JSON
B_JSON == <<"b">> \o DOT_JSON
CHUNKS_JSON == <<"c", "h", "u", "n", "k", "s">> \o DOT_JSON

\* the files process_pdfs writes to PROCESSED_DIR, in listing order
ProcessedNames == <<A_JSON, B_JSON>>

P_TEXT == <<"p">>
Q_TEXT == <<"q">>

\* texts of a document, given as the pieces split_text cuts them into
Documents == {<< >>, <<P_TEXT>>, <<Q_TEXT>>, <<P_TEXT, Q_TEXT>>}

\* filenames a client puts in DELETE /delete/{filename}
DeleteRequests == {A_JSON, B_JSON, CHUNKS_JSON}

RECURSIVE LastDot(_, _)
LastDot(name, i) ==
    IF i < 1 THEN 0
    ELSE IF name[i] = "." THEN i ELSE LastDot(name, i - 1)

\* Path(name).stem: the name without its last suffix
Stem(name) ==
    LET d == LastDot(name, Len(name))
    IN  IF d <= 1 \/ d = Len(name) THEN name ELSE SubSeq(name, 1, d - 1)

\* process_pdfs writes (or rewrites) one file of PROCESSED_DIR
SaveProcessed(name, pieces) ==
    /\ processed' = {f \in processed : f.name # name}
                      \cup {[name |-> name, content |-> pieces]}
    /\ ingested' = FALSE
    /\ UNCHANGED <<chunks_dir, uploads, vectors, deleted>>

\* the chunks of one document: chunk_id is the position in split order
ChunksOfDocument(doc) ==
    [i \in 1..Len(doc.content) |->
       [filename |-> doc.name, chunk_id |-> i - 1, content |-> doc.content[i]]]

RECURSIVE ChunkFrom(_, _)
ChunkFrom(docs, i) ==
    IF i > Len(ProcessedNames) THEN << >>
    ELSE LET here == {f \in docs : f.name = ProcessedNames[i]}
         IN  (IF here = {} THEN << >>
              ELSE ChunksOfDocument(CHOOSE f \in here : TRUE))
             \o ChunkFrom(docs, i + 1)

\* chunk_documents(documents): the chunks of every document, in order
chunk_documents(docs) == ChunkFrom(docs, 1)

\* chunking.py: load_processed_files, chunk_documents, save_chunks
RunChunking ==
    /\ chunks_dir' = {f \in chunks_dir : f.name # CHUNKS_JSON}
                      \cup {[name |-> CHUNKS_JSON,
                              chunks |-> chunk_documents(processed)]}
    /\ ingested' = FALSE
    /\ UNCHANGED <<processed, uploads, vectors, deleted>>

\* id of the vector of a chunk: f"{filename}-{chunk_id}"
VectorId(ch) == ch.filename \o <<"-">> \o IntToStr(ch.chunk_id)

\* the vector prepared for a chunk (embeddings.py lines 51-59)
VectorOf(ch) ==
    [id |-> VectorId(ch), filename |-> ch.filename, chunk_id |-> ch.chunk_id,
     content |-> ch.content]

RECURSIVE UpsertFrom(_, _, _)
UpsertFrom(stored, batch, i) ==
    IF i > Len(batch) THEN stored
    ELSE UpsertFrom({v \in stored : v.id # batch[i].id} \cup {batch[i]},
                    batch, i + 1)

\* index.upsert(batch): a vector replaces the stored one with its id
Upsert(stored, batch) == UpsertFrom(stored, batch, 1)

\* every chunk of every file of CHUNKS_DIR, as vectors
AllVectors(dir) ==
    LET files == {f \in dir : f.name = CHUNKS_JSON}
    IN  IF files = {} THEN << >>
        ELSE LET chunks == (CHOOSE f \in files : TRUE).chunks
             IN  [i \in 1..Len(chunks) |-> VectorOf(chunks[i])]

\* embeddings.py: embed and upsert the chunks of every file of CHUNKS_DIR
RunEmbeddings ==
    LET batch == AllVectors(chunks_dir)
    IN  /\ vectors' = Upsert(vectors, batch)
        /\ deleted' = deleted \ {batch[i].filename : i \in 1..Len(batch)}
        /\ ingested' = TRUE
        /\ UNCHANGED <<processed, chunks_dir, uploads>>

\* DELETE /delete/{filename}: the upload and the chunks file are removed,
\* the index is left as it is, and the request succeeds
delete_file(filename) ==
    /\ uploads' = uploads \ {filename}
    /\ chunks_dir' = {f \in chunks_dir : f.name # Stem(filename) \o DOT_JSON}
    /\ deleted' = deleted \cup {filename}
    /\ ingested' = FALSE
    /\ UNCHANGED <<processed, vectors>>

IngestNext ==
    \/ \E n \in 1..Len(ProcessedNames), pieces \in Documents :
         SaveProcessed(ProcessedNames[n], pieces)
           /\ UNCHANGED <<callervars, concvars>>
    \/ RunChunking /\ UNCHANGED <<callervars, concvars>>
    \/ RunEmbeddings /\ UNCHANGED <<callervars, concvars>>
    \/ \E filename \in DeleteRequests :
         delete_file(filename) /\ UNCHANGED <<callervars, concvars>>

SpecIngest == Init /\ [][IngestNext]_vars

\* ingestion runs only: no document is deleted
IngestRunsNext ==
    \/ \E n \in 1..Len(ProcessedNames), pieces \in Documents :
         SaveProcessed(ProcessedNames[n], pieces)
           /\ UNCHANGED <<callervars, concvars>>
    \/ RunChunking /\ UNCHANGED <<callervars, concvars>>
    \/ RunEmbeddings /\ UNCHANGED <<callervars, concvars>>

SpecIngestRuns == Init /\ [][IngestRunsNext]_vars

(***************************************************************************)
(* Vocabulary of the properties                                            *)
(***************************************************************************)
Count(event) == Cardinality({i \in 1..Len(log) : log[i] = event})

Logged(event) == \E i \in 1..Len(log) : log[i] = event

FirstIndex(event) == CHOOSE i \in 1..Len(log) : log[i] = event

InRag == entry = "rag_answer"

\* retrieve_chunks of this rag_answer invocation has returned
Retrieved == InRag /\ Logged("search.return")

\* build_context of this rag_answer invocation has returned
Built == Retrieved /\ pc # "build"

\* answer_with_context has run up to its return or its completion call
Answered ==
    \/ pc \in {"llm_wait", "package"}
    \/ pc = "done"
    \/ pc = "raised" /\ Logged("llm.fail")

\* the matches the search returned
Matches == IF resp.is_none THEN << >> ELSE resp.matches

HasKey(m, key) == ~m.metadata.is_none /\ key \in m.metadata.keys

\* len("[filename#chunk_id]\n" + content + "\n")
BlockLen(ch) ==
    Len(ch.filename) + Len(IntToStr(ch.chunk_id)) + Len(ch.content) + 5

\* the ranking: score descending, equal scores in input order
RankOrder(chunks) ==
    LET n == Len(chunks)
    IN  CHOOSE p \in [1..n -> 1..n] :
          /\ \A i, j \in 1..n : i # j => p[i] # p[j]
          /\ \A i, j \in 1..n : i < j =>
                \/ chunks[p[i]].score > chunks[p[j]].score
                \/ /\ chunks[p[i]].score = chunks[p[j]].score
                   /\ p[i] < p[j]

Ranked(chunks) ==
    LET p == RankOrder(chunks) IN [i \in 1..Len(chunks) |-> chunks[p[i]]]

RECURSIVE SumLen(_, _)
SumLen(chunks, k) ==
    IF k = 0 THEN 0 ELSE SumLen(chunks, k - 1) + BlockLen(chunks[k])

\* length of the longest prefix whose blocks fit the budget together
FitCount(chunks) ==
    CHOOSE k \in 0..Len(chunks) :
      /\ SumLen(chunks, k) <= MAX_CONTEXT_CHARS
      /\ k < Len(chunks) => SumLen(chunks, k + 1) > MAX_CONTEXT_CHARS

WhitespaceOnly(s) == \A i \in 1..Len(s) : s[i] \in Whitespace

(***************************************************************************)
(* C1: the string build_context returns is never longer than               *)
(* MAX_CONTEXT_CHARS characters, separators included.                      *)
(***************************************************************************)
C1_ContextWithinBudget == Built => Len(context) <= MAX_CONTEXT_CHARS

(***************************************************************************)
(* C2: the blocks of the context are blocks of the chunks in descending    *)
(* score order, chunks of equal score in their input order, whatever the   *)
(* order of the input.                                                     *)
(***************************************************************************)
C2_DescendingStable ==
    Built =>
      LET r == Ranked(hits)
      IN  \E k \in 0..Len(hits) :
            context = Join(SEPARATOR, [i \in 1..k |-> Block(r[i])])

C2_Witness ==
    /\ Built
    /\ Len(hits) = 3
    /\ hits[1].score < hits[2].score
    /\ hits[2].score = hits[3].score
    /\ hits[2] # hits[3]
    /\ Len(context) > BlockLen(hits[2]) + BlockLen(hits[3])

(***************************************************************************)
(* C3: the context holds exactly the longest prefix of the ranked chunks   *)
(* whose block lengths sum to at most the budget (a sum equal to the       *)
(* budget is within it), and each of these blocks stands whole in the      *)
(* context, one separator after the other.                                 *)
(***************************************************************************)
C3_LongestFittingPrefix ==
    Built =>
      LET r == Ranked(hits)
          k == FitCount(r)
          start(i) == SumLen(r, i - 1) + Len(SEPARATOR) * (i - 1) + 1
      IN  /\ Len(context) =
               SumLen(r, k) + (IF k = 0 THEN 0 ELSE Len(SEPARATOR) * (k - 1))
          /\ \A i \in 1..k :
               SubSeq(context, start(i), start(i) + BlockLen(r[i]) - 1)
                 = Block(r[i])
          /\ \A i \in 2..k :
               SubSeq(context, start(i) - Len(SEPARATOR), start(i) - 1)
                 = SEPARATOR

C3_Witness ==
    /\ Built
    /\ LET r == Ranked(hits)
           k == FitCount(r)
       IN  /\ k >= 1
           /\ k < Len(hits)
           /\ SumLen(r, k) = MAX_CONTEXT_CHARS
           /\ context # EmptyStr

(***************************************************************************)
(* C4: the context is the empty string when there are no chunks and when   *)
(* every chunk's block alone is longer than the budget.                    *)
(***************************************************************************)
C4_EmptyContext ==
    (Built /\ \A i \in 1..Len(hits) : BlockLen(hits[i]) > MAX_CONTEXT_CHARS)
      => context = EmptyStr

C4_Witness ==
    /\ Built
    /\ hits # << >>
    /\ \A i \in 1..Len(hits) : BlockLen(hits[i]) > MAX_CONTEXT_CHARS
    /\ context = EmptyStr

(***************************************************************************)
(* C5: answer_with_context given an empty or all-whitespace context        *)
(* returns the fallback string without any completion call; given any      *)
(* other context it makes exactly one completion call.                     *)
(***************************************************************************)
C5_FallbackWithoutCall ==
    Answered =>
      IF WhitespaceOnly(context)
      THEN Count("llm.call") = 0 /\ answer = FALLBACK
      ELSE Count("llm.call") = 1

C5_Witness ==
    /\ entry = "answer_with_context"
    /\ pc = "done"
    /\ context # EmptyStr
    /\ WhitespaceOnly(context)
    /\ answer = FALLBACK
    /\ result.status = "returned"

(***************************************************************************)
(* C6: sources has one entry per match, in the order of the search         *)
(* result, and the list handed to build_context is the same list after it. *)
(***************************************************************************)
C6_SourcesInRetrievalOrder ==
    /\ Built =>
         /\ Len(hits) = Len(Matches)
         /\ \A i \in 1..Len(hits) :
              hits[i].score =
                (IF Matches[i].has_score THEN Matches[i].score ELSE 0)
    /\ (InRag /\ pc = "done") =>
         /\ Len(sources) = Len(Matches)
         /\ \A i \in 1..Len(sources) :
              LET m == Matches[i]
              IN  /\ sources[i].filename =
                       (IF HasKey(m, "filename") THEN m.metadata.filename
                        ELSE UNKNOWN)
                  /\ sources[i].chunk_id =
                       (IF HasKey(m, "chunk_id") THEN m.metadata.chunk_id
                        ELSE -1)
                  /\ sources[i].score =
                       Round4(IF m.has_score THEN m.score ELSE 0)

C6_Witness ==
    /\ InRag
    /\ pc = "done"
    /\ Len(sources) = 3
    /\ sources[1].score < sources[2].score
    /\ sources[2].score = 8123
    /\ Matches[2].score = 8123456
    /\ Logged("llm.return")

(***************************************************************************)
(* C7: a search without matches ends in the fallback answer with empty     *)
(* sources, and no completion call is made on that request.                *)
(***************************************************************************)
C7_NoMatchesFallback ==
    (Retrieved /\ Matches = << >>) =>
      /\ ~Logged("llm.call")
      /\ pc \in {"build", "answer", "package", "done"}
      /\ pc \in {"package", "done"} => answer = FALLBACK
      /\ pc = "done" => sources = << >> /\ result.status = "returned"

C7_Witness ==
    /\ Retrieved
    /\ Matches = << >>
    /\ pc = "done"
    /\ answer = FALLBACK
    /\ sources = << >>

(***************************************************************************)
(* C8: in one rag_answer invocation each service is called at most once,   *)
(* the search is called after the embedding call returned and the          *)
(* completion after the search returned.                                   *)
(***************************************************************************)
C8_CallOrder ==
    InRag =>
      /\ Count("embed.call") <= 1
      /\ Count("search.call") <= 1
      /\ Count("llm.call") <= 1
      /\ Logged("search.call") =>
           /\ Logged("embed.return")
           /\ FirstIndex("embed.call") < FirstIndex("embed.return")
           /\ FirstIndex("embed.return") < FirstIndex("search.call")
      /\ Logged("llm.call") =>
           /\ Logged("search.return")
           /\ FirstIndex("search.call") < FirstIndex("search.return")
           /\ FirstIndex("search.return") < FirstIndex("llm.call")

C8_Witness ==
    /\ InRag
    /\ pc = "done"
    /\ log = <<"embed.call", "embed.return", "search.call", "search.return",
               "llm.call", "llm.return">>

(***************************************************************************)
(* C9: a failed external call ends the invocation with that service's      *)
(* error: the call was made once, nothing is called after it, and no       *)
(* answer is returned.                                                     *)
(***************************************************************************)
FailureOf ==
    [e \in {"embed.fail", "search.fail", "llm.fail"} |->
       CASE e = "embed.fail" -> <<"embed.call", "EmbeddingServiceError">>
         [] e = "search.fail" -> <<"search.call", "IndexServiceError">>
         [] e = "llm.fail" -> <<"llm.call", "GenerationServiceError">>]

C9_FailurePropagates ==
    \A i \in 1..Len(log) :
      log[i] \in DOMAIN FailureOf =>
        /\ i = Len(log)
        /\ log[i - 1] = FailureOf[log[i]][1]
        /\ Count(FailureOf[log[i]][1]) = 1
        /\ pc = "raised"
        /\ result = [status |-> "raised", error |-> FailureOf[log[i]][2]]
        /\ sources = << >>

C9_Witness ==
    /\ InRag
    /\ pc = "raised"
    /\ log = <<"embed.call", "embed.return", "search.call", "search.return",
               "llm.call", "llm.fail">>
    /\ result.error = "GenerationServiceError"

(***************************************************************************)
(* C10: a match without metadata, or whose metadata lacks filename,        *)
(* chunk_id or content, becomes a chunk with "unknown", -1 and "" in the   *)
(* missing places; every match yields a chunk and retrieval does not fail. *)
(***************************************************************************)
C10_MetadataDefaults ==
    Retrieved =>
      /\ Len(hits) = Len(Matches)
      /\ \A i \in 1..Len(Matches) :
           LET m == Matches[i]
           IN  /\ hits[i].filename =
                    (IF HasKey(m, "filename") THEN m.metadata.filename
                     ELSE UNKNOWN)
               /\ hits[i].chunk_id =
                    (IF HasKey(m, "chunk_id") THEN m.metadata.chunk_id
                     ELSE -1)
               /\ hits[i].content =
                    (IF HasKey(m, "content") THEN m.metadata.content
                     ELSE EmptyStr)
      /\ pc = "raised" => Logged("llm.fail")

C10_Witness ==
    /\ Retrieved
    /\ pc = "done"
    /\ Logged("llm.return")
    /\ Len(Matches) = 3
    /\ Matches[1].metadata.is_none
    /\ Matches[2].metadata.keys = {"filename", "content"}
    /\ Matches[3].metadata.keys = AllKeys
    /\ hits[1].filename = UNKNOWN /\ hits[1].chunk_id = -1
    /\ hits[1].content = EmptyStr
    /\ hits[2].chunk_id = -1 /\ hits[3].chunk_id = 0

(***************************************************************************)
(* C14: rag_answer calls the language model exactly when the block of the  *)
(* highest-ranked chunk fits the budget and the context is not all         *)
(* whitespace; a highest-ranked block longer than the budget gives the     *)
(* empty context even when a lower-ranked chunk would fit, and then the    *)
(* fallback answer is returned with one source per retrieved match.        *)
(***************************************************************************)
TopFits(chunks) ==
    /\ chunks # << >>
    /\ BlockLen(Ranked(chunks)[1]) <= MAX_CONTEXT_CHARS

C14_ModelCalledIffTopFits ==
    /\ (InRag /\ Answered) =>
         (Logged("llm.call") <=> (TopFits(hits) /\ ~WhitespaceOnly(context)))
    /\ (Built /\ hits # << >> /\ ~TopFits(hits)) =>
         /\ context = EmptyStr
         /\ pc \in {"answer", "package", "done"}
         /\ pc \in {"package", "done"} => answer = FALLBACK
         /\ pc = "done" =>
              /\ result.status = "returned"
              /\ sources # << >>
              /\ Len(sources) = Len(Matches)

C14_Witness ==
    /\ InRag
    /\ pc = "done"
    /\ hits # << >>
    /\ ~TopFits(hits)
    /\ \E i \in 1..Len(hits) : BlockLen(hits[i]) <= MAX_CONTEXT_CHARS
    /\ answer = FALLBACK
    /\ Len(sources) = Len(hits)
    /\ ~Logged("llm.call")

(***************************************************************************)
(* C11: whatever the interleaving of concurrent rag_answer invocations,    *)
(* each one returns the answer and sources it would return alone on the    *)
(* service responses it received, and the module-level names keep the      *)
(* values they were loaded with.                                           *)
(***************************************************************************)
\* rag_answer run alone on a search response and a completion
Alone(r, reply) ==
    LET ms == IF r.is_none THEN << >> ELSE r.matches
        hs == [i \in 1..Len(ms) |-> ToChunk(ms[i])]
        ctx == build_context(hs)
    IN  [answer  |-> IF WhitespaceOnly(ctx) THEN FALLBACK ELSE Strip(reply),
         sources |-> [i \in 1..Len(hs) |-> Source(hs[i])]]

C11_InvocationsIndependent ==
    /\ globals = LoadedModule
    /\ \A t \in Invocations :
         inv[t].pc = "done" =>
           /\ inv[t].answer = Alone(inv[t].resp, inv[t].reply).answer
           /\ inv[t].sources = Alone(inv[t].resp, inv[t].reply).sources

C11_Witness ==
    /\ \A t \in Invocations : inv[t].pc = "done" /\ inv[t].overlapped
    /\ \E t, u \in Invocations :
         /\ inv[t].resp # inv[u].resp
         /\ inv[t].sources # inv[u].sources
         /\ inv[t].answer # inv[u].answer
         /\ inv[t].sources # << >>
         /\ inv[u].sources # << >>

(***************************************************************************)
(* C12: once DELETE /delete/{filename} has succeeded, and until the        *)
(* document is ingested again, the index holds no vector of that filename. *)
(***************************************************************************)
C12_DeletedLeavesNoVectors ==
    \A f \in deleted : \A v \in vectors : v.filename # f

(***************************************************************************)
(* C13: after an ingestion run the chunk_ids of each filename are 0..n-1,  *)
(* distinct chunks have distinct vector ids, every chunk of the current    *)
(* chunk set has exactly one vector, and every vector belongs to a chunk   *)
(* of the current chunk set.                                               *)
(***************************************************************************)
CurrentChunks ==
    UNION {{f.chunks[i] : i \in 1..Len(f.chunks)} : f \in chunks_dir}

C13_ChunksMatchVectors ==
    ingested =>
      /\ \A c \in CurrentChunks :
           LET n == Cardinality({d \in CurrentChunks :
                                  d.filename = c.filename})
           IN  c.chunk_id \in 0..(n - 1)
      /\ \A c, d \in CurrentChunks : c # d => VectorId(c) # VectorId(d)
      /\ \A c \in CurrentChunks :
           Cardinality({v \in vectors :
                          /\ v.id = VectorId(c)
                          /\ v.filename = c.filename
                          /\ v.chunk_id = c.chunk_id
                          /\ v.content = c.content}) = 1
      /\ \A v \in vectors : \E c \in CurrentChunks : v.id = VectorId(c)

====
